---- MODULE Spec2Model ----
(***************************************************************************)
(* The deployment controller of k8s-tui (pkg/controller) and the terminal  *)
(* model that polls it (pkg/model).                                        *)
(*                                                                         *)
(* The controller wires a client-go informer (Resource Watcher + Local     *)
(* Cache = Indexer) to a client-go rate limiting work queue and runs a     *)
(* worker loop over it.  The informer and the work queue are library       *)
(* code; they are modelled by their contract (spec sections 4.1 and 4.2).  *)
(* Everything the controller itself does (the event handlers, Run,         *)
(* RunWorker, processNextItem, syncDeployment, handleErr,                  *)
(* deleteDeplotment) is translated from the source, one action per step    *)
(* between two points where another goroutine can interleave.              *)
(***************************************************************************)
EXTENDS Integers, Sequences, FiniteSets, TLC

\* ------------------------------------------------------------------ data

\* ResourceKeys, "<namespace>/<name>" (cache.MetaNamespaceKeyFunc).
Keys == {"ns/a", "ns/b"}

\* Payloads of a resource (successive resource versions of a Deployment).
Versions == {"v1", "v2"}

\* An absent Local Cache entry / absent map entry.
None == "none"

\* Worker loops.  Run starts one (go wait.Until(c.RunWorker, ...)); Init
\* launches two over the same queue so that the per-key exclusion the source
\* comments on ("two deployments with the same key are never processed in
\* parallel") is exercised, and InitRetry launches one, as the program does.
Workers == {"w1", "w2"}

\* Keys whose reconciliation can fail or panic (the reconciler's faults are
\* inputs); the other keys always reconcile.
Faulty == {"ns/a"}

\* Watch events delivered after the initial listing.
MaxEvents == 1

\* Reconciliations that fail or panic.
MaxFaults == 1

\* The retry ceiling of handleErr ("retries 5 times").
MaxRetries == 5

\* Polls of HasSynced after which a startup deadline would have passed.
SyncDeadline == 2

VARIABLES
    stopCh,             \* the stop channel is closed
    runPc,              \* position of Controller.Run
    polls,              \* polls of HasSynced that WaitForCacheSync has made
    pool,               \* the worker loops Run launches
    crashed,            \* a panic has unwound a goroutine: the process is gone
    infPc,              \* position of Informer.Run
    listed,             \* keys of the initial listing
    toList,             \* initial keys not yet processed into the cache
    hasSynced,          \* Informer.HasSynced()
    ev,                 \* event whose cache write is done and handler is due
    evLeft,             \* watch events still to come
    Indexer,            \* the Local Cache
    queue,              \* the rate limiting work queue
    pc,                 \* position of each worker loop
    wkey,               \* key a worker got from Get
    werr,               \* outcome of the worker's syncDeployment
    deferred,           \* the worker's frame has Done(key) deferred
    faultLeft,          \* reconciliation faults still to come
    CurrentDeployments, \* the map read by the presentation layer
    reported,           \* errors handed to runtime.HandleError
    \* history (never read by the program)
    lastEvent,          \* last event the watcher saw per key
    addsSinceGet,       \* Add(k) calls since the last Get that returned k:
                        \* all of them, and those made before ShutDown
    cycle,              \* consecutive failed reconciliations of a key
    dones,              \* Done calls of a worker since its last Get
    act,                \* what handleErr did for the worker's current key
    \* the terminal model (pkg/model), run by the Bubble Tea event loop
    uiPc,               \* position of the event loop
    seen,               \* CurrentDeployments as convertToSliceAndSort found it
    choices,            \* model.choices: the rows, sorted keys
    cursor,             \* model.cursor: a 0-based row index
    selected,           \* model.selected: a set of 0-based row indices
    state,              \* model.state
    marked,             \* history: keys the user toggled on and not off since
    \* the queue's rate limiter
    tokens,             \* tokens of the queue-wide bucket (negative: owed)
    delays              \* history: the delays of a key's requeues since its
                        \* last Forget, and whether the bucket had a token

uiVars == <<uiPc, seen, choices, cursor, selected, state, marked>>

rlVars == <<tokens, delays>>

vars == <<stopCh, runPc, polls, pool, crashed, infPc, listed, toList,
          hasSynced, ev, evLeft, Indexer, queue, pc, wkey, werr, deferred,
          faultLeft, CurrentDeployments, reported, lastEvent, addsSinceGet,
          cycle, dones, act, uiVars, rlVars>>

ctlVars == <<stopCh, runPc, polls, pool>>
infVars == <<infPc, listed, toList, hasSynced, ev, evLeft, lastEvent>>
wrkVars == <<pc, wkey, werr, deferred, dones, act, faultLeft>>

NoEv == [type |-> "none", key |-> None]

NoAct == [what |-> "none", attempt |-> 0]

NoAdds == [calls |-> 0, live |-> 0]

\* Requeues the bucket may owe tokens for.
MaxDebt == 2

\* workqueue.DefaultTypedControllerRateLimiter: the larger of a per-item
\* exponential backoff, 5 ms doubling per failure and capped at 1000 s, and
\* a queue-wide token bucket of 10 tokens per second with a burst of 100.
\* Delays are in milliseconds.
BaseDelay == 5

MaxDelay == 1000000

Burst == 100

RefillEvery == 100

\* workqueue.TypedRateLimitingInterface[string], a record:
\*   items        the FIFO of keys ready for Get
\*   dirty        keys that need processing
\*   processing   keys between Get and Done
\*   shuttingDown ShutDown was called
\*   failures     the rate limiter's requeue count per key
\*   waiting      keys whose rate-limited re-add is scheduled

Count(s, k) == Cardinality({i \in 1..Len(s) : s[i] = k})

NewQueue ==
    [items |-> <<>>, dirty |-> {}, processing |-> {}, shuttingDown |-> FALSE,
     failures |-> [k \in Keys |-> 0], waiting |-> {}]

\* Add: no-op after ShutDown; dedups; a key in flight is only marked dirty.
QAdd(q, k) ==
    IF q.shuttingDown \/ k \in q.dirty THEN q
    ELSE IF k \in q.processing THEN [q EXCEPT !.dirty = @ \cup {k}]
    ELSE [q EXCEPT !.dirty = @ \cup {k}, !.items = Append(@, k)]

\* Get, when an item is there: pops it and marks it in flight.
QGet(q) ==
    [q EXCEPT !.items = Tail(@),
              !.processing = @ \cup {Head(q.items)},
              !.dirty = @ \ {Head(q.items)}]

\* Done: no longer in flight; re-added if it was marked dirty meanwhile.
QDone(q, k) ==
    IF k \in q.dirty
    THEN [q EXCEPT !.processing = @ \ {k}, !.items = Append(@, k)]
    ELSE [q EXCEPT !.processing = @ \ {k}]

QNumRequeues(q, k) == q.failures[k]

QForget(q, k) == [q EXCEPT !.failures[k] = 0]

\* AddRateLimited: the limiter counts the requeue and the key is scheduled
\* for a later Add; after ShutDown nothing is scheduled.
QAddRateLimited(q, k) ==
    IF q.shuttingDown
    THEN [q EXCEPT !.failures[k] = @ + 1]
    ELSE [q EXCEPT !.failures[k] = @ + 1, !.waiting = @ \cup {k}]

QShutDown(q) == [q EXCEPT !.shuttingDown = TRUE]

RECURSIVE Pow2(_)
Pow2(n) == IF n = 0 THEN 1 ELSE 2 * Pow2(n - 1)

Min(a, b) == IF a < b THEN a ELSE b

Max(a, b) == IF a > b THEN a ELSE b

\* The per-item limiter's delay for an item that failed n times before.
ItemExponentialWhen(n) == Min(BaseDelay * Pow2(n), MaxDelay)

\* The bucket's delay for a reservation made with t tokens left: none if a
\* token is there, else the time until the owed tokens are refilled.
BucketWhen(t) == IF t >= 1 THEN 0 ELSE (1 - t) * RefillEvery

\* The delay AddRateLimited applies: the larger of the two.
RateLimiterWhen(n, t) == Max(ItemExponentialWhen(n), BucketWhen(t))

\* A worker holds k between its Get and its return from processNextItem.
Holds(w, k) == wkey[w] = k /\ pc[w] \in {"sync", "handleErr", "return"}

InFlight(k) == \E w \in Workers : Holds(w, k)

Bump(n) == IF n < 2 THEN n + 1 ELSE n

\* History of an Add(k) call made through any path.
NoteAdd(k) ==
    addsSinceGet' =
        [addsSinceGet EXCEPT
            ![k] = [calls |-> Bump(@.calls),
                    live |-> IF queue.shuttingDown THEN @.live
                             ELSE Bump(@.live)]]

\* The delaying queue's timer: a scheduled key becomes due and is Added.
\* The timer loop ends with ShutDown.
WaitingFor(k) ==
    /\ ~crashed
    /\ k \in queue.waiting /\ ~queue.shuttingDown
    /\ queue' = QAdd([queue EXCEPT !.waiting = @ \ {k}], k)
    /\ NoteAdd(k)
    /\ UNCHANGED <<ctlVars, crashed, infVars, Indexer, wrkVars,
                   CurrentDeployments, reported, cycle>>
    /\ UNCHANGED <<uiVars, rlVars>>

\* ------------------------------------------------- informer (watch/list)
\* cache.NewIndexerInformer's contract (spec 4.1): per event, in order, the
\* Local Cache is written, then the registered handler is called; HasSynced
\* turns true once the whole initial listing went through both.

Upsert(k, v) ==
    /\ Indexer' = [Indexer EXCEPT ![k] = v]
    /\ lastEvent' = [lastEvent EXCEPT ![k] = v]

Remove(k) ==
    /\ Indexer' = [Indexer EXCEPT ![k] = None]
    /\ lastEvent' = [lastEvent EXCEPT ![k] = "deleted"]

\* One object of the initial listing is stored; its AddFunc is due.
ListItem(k) ==
    /\ ~crashed
    /\ infPc = "listing" /\ ev = NoEv /\ ~stopCh
    /\ k \in toList
    /\ Upsert(k, "v1")
    /\ toList' = toList \ {k}
    /\ ev' = [type |-> "add", key |-> k]
    /\ UNCHANGED <<ctlVars, crashed, infPc, listed, hasSynced, evLeft, queue,
                   wrkVars, CurrentDeployments, reported, addsSinceGet, cycle>>
    /\ UNCHANGED <<uiVars, rlVars>>

\* The initial listing is fully delivered and processed.
ListDone ==
    /\ ~crashed
    /\ infPc = "listing" /\ ev = NoEv
    /\ toList = {}
    /\ infPc' = "watching"
    /\ hasSynced' = TRUE
    /\ UNCHANGED <<ctlVars, crashed, listed, toList, ev, evLeft, lastEvent,
                   Indexer, queue, wrkVars, CurrentDeployments, reported,
                   addsSinceGet, cycle>>
    /\ UNCHANGED <<uiVars, rlVars>>

\* A watch event: add or update (upsert) or delete; the cache is written
\* and the matching handler is due.
WatchEvent(k) ==
    /\ ~crashed
    /\ infPc = "watching" /\ ev = NoEv /\ ~stopCh
    /\ evLeft > 0
    /\ evLeft' = evLeft - 1
    /\ \/ /\ \E v \in Versions : Upsert(k, v)
          /\ ev' = [type |-> IF Indexer[k] = None THEN "add" ELSE "update",
                    key |-> k]
       \/ /\ Remove(k)
          /\ ev' = [type |-> "delete", key |-> k]
    /\ UNCHANGED <<ctlVars, crashed, infPc, listed, toList, hasSynced, queue,
                   wrkVars, CurrentDeployments, reported, addsSinceGet, cycle>>
    /\ UNCHANGED <<uiVars, rlVars>>

\* Informer.Run returns once the stop channel is closed.
InformerStop ==
    /\ ~crashed
    /\ infPc \in {"listing", "watching"} /\ ev = NoEv
    /\ stopCh
    /\ infPc' = "stopped"
    /\ UNCHANGED <<ctlVars, crashed, listed, toList, hasSynced, ev, evLeft,
                   lastEvent, Indexer, queue, wrkVars, CurrentDeployments,
                   reported, addsSinceGet, cycle>>
    /\ UNCHANGED <<uiVars, rlVars>>

\* ------------------------------------------------------- event handlers
\* NewController's ResourceEventHandlerFuncs: each computes the key and, the
\* key function having succeeded, Adds it.

AddFunc_NoEnqueue(q, key) == q

AddFunc(q, key) == QAdd(q, key)

UpdateFunc_NoEnqueue(q, key) == q

UpdateFunc(q, key) == QAdd(q, key)

DeleteFunc_NoEnqueue(q, key) == q

DeleteFunc(q, key) == QAdd(q, key)

\* The informer calls the handler of the event it has just stored.
Notify ==
    /\ ~crashed
    /\ ev # NoEv
    /\ queue' = CASE ev.type = "add" -> AddFunc(queue, ev.key)
                  [] ev.type = "update" -> UpdateFunc(queue, ev.key)
                  [] OTHER -> DeleteFunc(queue, ev.key)
    /\ NoteAdd(ev.key)
    /\ ev' = NoEv
    /\ UNCHANGED <<ctlVars, crashed, infPc, listed, toList, hasSynced, evLeft,
                   lastEvent, Indexer, wrkVars, CurrentDeployments, reported,
                   cycle>>
    /\ UNCHANGED <<uiVars, rlVars>>

\* ------------------------------------------------------- Controller.Run

\* go c.Informer.Run(stopCh), then WaitForCacheSync starts polling.
RunStart ==
    /\ ~crashed
    /\ runPc = "init"
    /\ runPc' = "waitSync"
    /\ infPc' = "listing"
    /\ UNCHANGED <<stopCh, polls, pool, crashed, listed, toList, hasSynced,
                   ev, evLeft, lastEvent, Indexer, queue, wrkVars,
                   CurrentDeployments, reported, addsSinceGet, cycle>>
    /\ UNCHANGED <<uiVars, rlVars>>

\* WaitForCacheSync polls HasSynced every 100 ms for as long as it is false
\* and the stop channel is open; it has no deadline of its own.
RunPollSync ==
    /\ ~crashed
    /\ runPc = "waitSync"
    /\ ~hasSynced /\ ~stopCh
    /\ polls < SyncDeadline
    /\ polls' = polls + 1
    /\ UNCHANGED <<stopCh, runPc, pool, crashed, infVars, Indexer, queue,
                   wrkVars, CurrentDeployments, reported, addsSinceGet, cycle>>
    /\ UNCHANGED <<uiVars, rlVars>>

\* The worker loops are launched although the caches may not be synced.
RunSynced_NoBarrier ==
    /\ ~crashed
    /\ runPc = "waitSync"
    /\ runPc' = "running"
    /\ polls' = 0
    /\ pc' = [w \in Workers |-> IF w \in pool THEN "start" ELSE "off"]
    /\ UNCHANGED <<stopCh, pool, crashed, infVars, Indexer, queue, wkey, werr,
                   deferred, dones, act, faultLeft, CurrentDeployments,
                   reported, addsSinceGet, cycle>>
    /\ UNCHANGED <<uiVars, rlVars>>

\* WaitForCacheSync returned true: the worker loop is launched and Run
\* blocks on the stop channel.
RunSynced ==
    /\ ~crashed
    /\ runPc = "waitSync"
    /\ hasSynced
    /\ runPc' = "running"
    /\ polls' = 0
    /\ pc' = [w \in Workers |-> IF w \in pool THEN "start" ELSE "off"]
    /\ UNCHANGED <<stopCh, pool, crashed, infVars, Indexer, queue, wkey, werr,
                   deferred, dones, act, faultLeft, CurrentDeployments,
                   reported, addsSinceGet, cycle>>
    /\ UNCHANGED <<uiVars, rlVars>>

\* WaitForCacheSync returned false, which it does when the stop channel is
\* closed: the error is reported, Run returns and its deferred ShutDown runs.
RunSyncFailed ==
    /\ ~crashed
    /\ runPc = "waitSync"
    /\ stopCh
    /\ reported' = reported \cup {"timed out waiting for caches to sync"}
    /\ queue' = QShutDown(queue)
    /\ runPc' = "done"
    /\ polls' = 0
    /\ UNCHANGED <<stopCh, pool, crashed, infVars, Indexer, wrkVars,
                   CurrentDeployments, addsSinceGet, cycle>>
    /\ UNCHANGED <<uiVars, rlVars>>

\* <-stopCh returned: Run returns and its deferred ShutDown runs.
RunStopped ==
    /\ ~crashed
    /\ runPc = "running"
    /\ stopCh
    /\ queue' = QShutDown(queue)
    /\ runPc' = "done"
    /\ UNCHANGED <<stopCh, polls, pool, crashed, infVars, Indexer, wrkVars,
                   CurrentDeployments, reported, addsSinceGet, cycle>>
    /\ UNCHANGED <<uiVars, rlVars>>

\* main closes the stop channel (its deferred close(stop)).
CloseStop ==
    /\ ~crashed
    /\ ~stopCh
    /\ stopCh' = TRUE
    /\ UNCHANGED <<runPc, polls, pool, crashed, infVars, Indexer, queue,
                   wrkVars, CurrentDeployments, reported, addsSinceGet, cycle>>
    /\ UNCHANGED <<uiVars, rlVars>>

\* ------------------------------------------------------------ worker loop

\* wait.Until runs the loop body without looking at the stop channel.
WorkerStart_IgnoresStop(w) ==
    /\ ~crashed
    /\ pc[w] = "start"
    /\ pc' = [pc EXCEPT ![w] = "idle"]
    /\ UNCHANGED <<ctlVars, crashed, infVars, Indexer, queue, wkey, werr,
                   deferred, dones, act, faultLeft, CurrentDeployments,
                   reported, addsSinceGet, cycle>>
    /\ UNCHANGED <<uiVars, rlVars>>

\* wait.Until: the loop body runs unless the stop channel is closed.
WorkerStart(w) ==
    /\ ~crashed
    /\ pc[w] = "start"
    /\ pc' = [pc EXCEPT ![w] = IF stopCh THEN "exited" ELSE "idle"]
    /\ UNCHANGED <<ctlVars, crashed, infVars, Indexer, queue, wkey, werr,
                   deferred, dones, act, faultLeft, CurrentDeployments,
                   reported, addsSinceGet, cycle>>
    /\ UNCHANGED <<uiVars, rlVars>>

\* Done(key) is called at once instead of being deferred.
processNextItemGet_DoneNotDeferred(w) ==
    /\ ~crashed
    /\ pc[w] = "idle"
    /\ queue.items # <<>>
    /\ queue' = QDone(QGet(queue), Head(queue.items))
    /\ wkey' = [wkey EXCEPT ![w] = Head(queue.items)]
    /\ deferred' = [deferred EXCEPT ![w] = FALSE]
    /\ dones' = [dones EXCEPT ![w] = 1]
    /\ addsSinceGet' = [addsSinceGet EXCEPT ![Head(queue.items)] = NoAdds]
    /\ pc' = [pc EXCEPT ![w] = "sync"]
    /\ UNCHANGED <<ctlVars, crashed, infVars, Indexer, werr, act, faultLeft,
                   CurrentDeployments, reported, cycle>>
    /\ UNCHANGED <<uiVars, rlVars>>

\* processNextItem, Get returned a key: Done(key) is deferred.
processNextItemGet(w) ==
    /\ ~crashed
    /\ pc[w] = "idle"
    /\ queue.items # <<>>
    /\ queue' = QGet(queue)
    /\ wkey' = [wkey EXCEPT ![w] = Head(queue.items)]
    /\ deferred' = [deferred EXCEPT ![w] = TRUE]
    /\ dones' = [dones EXCEPT ![w] = 0]
    /\ addsSinceGet' = [addsSinceGet EXCEPT ![Head(queue.items)] = NoAdds]
    /\ pc' = [pc EXCEPT ![w] = "sync"]
    /\ UNCHANGED <<ctlVars, crashed, infVars, Indexer, werr, act, faultLeft,
                   CurrentDeployments, reported, cycle>>
    /\ UNCHANGED <<uiVars, rlVars>>

\* processNextItem, Get returned quit (the queue is shut down and drained):
\* RunWorker returns, and wait.Until looks at the stop channel again.
processNextItemQuit(w) ==
    /\ ~crashed
    /\ pc[w] = "idle"
    /\ queue.items = <<>> /\ queue.shuttingDown
    /\ pc' = [pc EXCEPT ![w] = "start"]
    /\ UNCHANGED <<ctlVars, crashed, infVars, Indexer, queue, wkey, werr,
                   deferred, dones, act, faultLeft, CurrentDeployments,
                   reported, addsSinceGet, cycle>>
    /\ UNCHANGED <<uiVars, rlVars>>

\* deleteDeplotment returns an error for a key it does not hold.
deleteDeplotment_FailsIfUnknown(w) ==
    /\ IF CurrentDeployments[wkey[w]] = None
       THEN werr' = [werr EXCEPT ![w] = "err"]
       ELSE werr' = [werr EXCEPT ![w] = "nil"]
    /\ CurrentDeployments' = [CurrentDeployments EXCEPT ![wkey[w]] = None]
    /\ UNCHANGED <<Indexer, faultLeft>>

\* deleteDeplotment: the key leaves CurrentDeployments; never an error.
deleteDeplotment(w) ==
    /\ CurrentDeployments' = [CurrentDeployments EXCEPT ![wkey[w]] = None]
    /\ werr' = [werr EXCEPT ![w] = "nil"]
    /\ UNCHANGED <<Indexer, faultLeft>>

\* The cached object is overwritten in the Indexer when it is recorded.
recordDeployment_WritesCache(w) ==
    /\ CurrentDeployments' =
           [CurrentDeployments EXCEPT ![wkey[w]] = Indexer[wkey[w]]]
    /\ werr' = [werr EXCEPT ![w] = "nil"]
    /\ Indexer' = [Indexer EXCEPT ![wkey[w]] = "v1"]
    /\ UNCHANGED faultLeft

\* A deployment that is already recorded is not recorded again.
recordDeployment_KeepsKnown(w) ==
    /\ CurrentDeployments' =
           [CurrentDeployments EXCEPT
               ![wkey[w]] = IF @ = None THEN Indexer[wkey[w]] ELSE @]
    /\ werr' = [werr EXCEPT ![w] = "nil"]
    /\ UNCHANGED <<Indexer, faultLeft>>

\* The cached object is taken out of the Indexer when it is recorded.
recordDeployment_TakesFromCache(w) ==
    /\ CurrentDeployments' =
           [CurrentDeployments EXCEPT ![wkey[w]] = Indexer[wkey[w]]]
    /\ werr' = [werr EXCEPT ![w] = "nil"]
    /\ Indexer' = [Indexer EXCEPT ![wkey[w]] = None]
    /\ UNCHANGED faultLeft

\* syncDeployment, the object exists and is a Deployment: it is recorded
\* under its namespace/name, which is its key.
recordDeployment(w) ==
    /\ CurrentDeployments' =
           [CurrentDeployments EXCEPT ![wkey[w]] = Indexer[wkey[w]]]
    /\ werr' = [werr EXCEPT ![w] = "nil"]
    /\ UNCHANGED <<Indexer, faultLeft>>

\* The reconciliation of the worker's key ended with fault e.
Fault(w, e) ==
    /\ wkey[w] \in Faulty /\ faultLeft > 0
    /\ werr' = [werr EXCEPT ![w] = e]
    /\ faultLeft' = faultLeft - 1
    /\ UNCHANGED <<CurrentDeployments, Indexer>>

\* syncDeployment: looks the key up in the Indexer; absent, the deletion
\* path; present, the object is recorded in CurrentDeployments.  GetByKey
\* and the cast can return an error, and the step can panic, in which case
\* handleErr is skipped and the frame unwinds to its defer.
syncDeployment(w) ==
    /\ ~crashed
    /\ pc[w] = "sync"
    /\ \/ /\ Fault(w, "err")                         \* GetByKey failed
          /\ pc' = [pc EXCEPT ![w] = "handleErr"]
       \/ /\ Indexer[wkey[w]] = None
          /\ deleteDeplotment(w)
          /\ pc' = [pc EXCEPT ![w] = "handleErr"]
       \/ /\ Indexer[wkey[w]] # None
          /\ \/ Fault(w, "err")                      \* the cast failed
             \/ recordDeployment(w)
          /\ pc' = [pc EXCEPT ![w] = "handleErr"]
       \/ /\ Fault(w, "panic")
          /\ pc' = [pc EXCEPT ![w] = "return"]
    /\ cycle' = [cycle EXCEPT ![wkey[w]] =
                    IF werr'[w] = "err" THEN @ + 1
                    ELSE IF werr'[w] = "nil" THEN 0 ELSE @]
    /\ UNCHANGED <<ctlVars, crashed, infVars, queue, wkey, deferred, dones,
                   act, reported, addsSinceGet>>
    /\ UNCHANGED <<uiVars, rlVars>>

handleErrNil_NoForget(q, key) == q

\* handleErr, err == nil: the key's requeue history is forgotten.
handleErrNil(q, key) == QForget(q, key)

ShouldRetry_OffByOne(q, key) == QNumRequeues(q, key) <= MaxRetries

\* handleErr's retry test: the key was requeued fewer than 5 times.
ShouldRetry(q, key) == QNumRequeues(q, key) < MaxRetries

\* handleErr: Forget on success; on an error AddRateLimited while the retry
\* test holds, else Forget and report the error.
handleErr(w) ==
    /\ ~crashed
    /\ pc[w] = "handleErr"
    /\ IF werr[w] = "nil"
       THEN /\ queue' = handleErrNil(queue, wkey[w])
            /\ act' = [act EXCEPT ![w] = [what |-> "forget", attempt |-> 0]]
            /\ UNCHANGED <<reported, cycle>>
       ELSE IF ShouldRetry(queue, wkey[w])
       THEN /\ queue' = QAddRateLimited(queue, wkey[w])
            /\ act' = [act EXCEPT ![w] =
                          [what |-> "requeue", attempt |-> cycle[wkey[w]]]]
            /\ UNCHANGED <<reported, cycle>>
       ELSE /\ queue' = QForget(queue, wkey[w])
            /\ reported' = reported \cup {wkey[w]}
            /\ act' = [act EXCEPT ![w] =
                          [what |-> "drop", attempt |-> cycle[wkey[w]]]]
            /\ cycle' = [cycle EXCEPT ![wkey[w]] = 0]
    /\ pc' = [pc EXCEPT ![w] = "return"]
    /\ UNCHANGED <<ctlVars, crashed, infVars, Indexer, wkey, werr, deferred,
                   dones, faultLeft, CurrentDeployments, addsSinceGet>>
    /\ UNCHANGED <<uiVars, rlVars>>

\* processNextItem returns false after an error: RunWorker's loop ends.
processNextItemReturn_StopsOnError(w) ==
    /\ ~crashed
    /\ pc[w] = "return"
    /\ IF deferred[w]
       THEN /\ queue' = QDone(queue, wkey[w])
            /\ dones' = [dones EXCEPT ![w] = @ + 1]
       ELSE UNCHANGED <<queue, dones>>
    /\ deferred' = [deferred EXCEPT ![w] = FALSE]
    /\ crashed' = (werr[w] = "panic")
    /\ pc' = [pc EXCEPT ![w] = IF werr[w] = "err" THEN "start" ELSE "idle"]
    /\ wkey' = [wkey EXCEPT ![w] = None]
    /\ werr' = [werr EXCEPT ![w] = None]
    /\ act' = [act EXCEPT ![w] = NoAct]
    /\ UNCHANGED <<ctlVars, infVars, Indexer, faultLeft, CurrentDeployments,
                   reported, addsSinceGet, cycle>>
    /\ UNCHANGED <<uiVars, rlVars>>

\* Done(key) is the function's last statement: a panic skips it.
processNextItemReturn_NoDoneOnPanic(w) ==
    /\ ~crashed
    /\ pc[w] = "return"
    /\ IF deferred[w] /\ werr[w] # "panic"
       THEN /\ queue' = QDone(queue, wkey[w])
            /\ dones' = [dones EXCEPT ![w] = @ + 1]
       ELSE UNCHANGED <<queue, dones>>
    /\ deferred' = [deferred EXCEPT ![w] = FALSE]
    /\ crashed' = (werr[w] = "panic")
    /\ pc' = [pc EXCEPT ![w] = "idle"]
    /\ wkey' = [wkey EXCEPT ![w] = None]
    /\ werr' = [werr EXCEPT ![w] = None]
    /\ act' = [act EXCEPT ![w] = NoAct]
    /\ UNCHANGED <<ctlVars, infVars, Indexer, faultLeft, CurrentDeployments,
                   reported, addsSinceGet, cycle>>
    /\ UNCHANGED <<uiVars, rlVars>>

\* processNextItem returns: the deferred Done(key) runs.  A panic goes on
\* unwinding into wait.Until's HandleCrash, which ends the process.
processNextItemReturn(w) ==
    /\ ~crashed
    /\ pc[w] = "return"
    /\ IF deferred[w]
       THEN /\ queue' = QDone(queue, wkey[w])
            /\ dones' = [dones EXCEPT ![w] = @ + 1]
       ELSE UNCHANGED <<queue, dones>>
    /\ deferred' = [deferred EXCEPT ![w] = FALSE]
    /\ crashed' = (werr[w] = "panic")
    /\ pc' = [pc EXCEPT ![w] = "idle"]
    /\ wkey' = [wkey EXCEPT ![w] = None]
    /\ werr' = [werr EXCEPT ![w] = None]
    /\ act' = [act EXCEPT ![w] = NoAct]
    /\ UNCHANGED <<ctlVars, infVars, Indexer, faultLeft, CurrentDeployments,
                   reported, addsSinceGet, cycle>>
    /\ UNCHANGED <<uiVars, rlVars>>

\* ------------------------------------------------------- terminal model
\* pkg/model: Bubble Tea calls Init once, then Update for every message of
\* its single event loop (a deploymentMsg from the one second tick, or a key
\* press) and View after each Update.

\* sort.Strings over the keys: the keys in ascending order.
KeyOrder == <<"ns/a", "ns/b">>

\* convertToSliceAndSort: the keys of the map, sorted.
convertToSliceAndSort(deploymentMap) ==
    SelectSeq(KeyOrder, LAMBDA k : deploymentMap[k] # None)

\* InitialModel: no rows, cursor 0, nothing selected, state initializing.
InitialModel ==
    /\ uiPc = "init"
    /\ seen = [k \in Keys |-> None]
    /\ choices = <<>>
    /\ cursor = 0
    /\ selected = {}
    /\ state = "initializing"
    /\ marked = {}

\* model.Init: spins until the informer has synced, then schedules the
\* first tick.
ModelInit ==
    /\ ~crashed
    /\ uiPc = "init"
    /\ hasSynced
    /\ uiPc' = "tick"
    /\ UNCHANGED <<seen, choices, cursor, selected, state, marked>>
    /\ UNCHANGED <<ctlVars, crashed, infVars, Indexer, queue, wrkVars,
                   CurrentDeployments, reported, addsSinceGet, cycle>>
    /\ UNCHANGED rlVars

\* checkDeployments: the tick fires and hands the event loop a deploymentMsg
\* that is the CurrentDeployments map itself, not a copy.
checkDeployments ==
    /\ ~crashed
    /\ uiPc = "tick"
    /\ uiPc' = "msg"
    /\ UNCHANGED <<seen, choices, cursor, selected, state, marked>>
    /\ UNCHANGED <<ctlVars, crashed, infVars, Indexer, queue, wrkVars,
                   CurrentDeployments, reported, addsSinceGet, cycle>>
    /\ UNCHANGED rlVars

\* Update(deploymentMsg) enters convertToSliceAndSort: the slice is sized
\* by len(map) and the range over the map begins, under the model's own
\* mutex only.
UpdateDeploymentsRange ==
    /\ ~crashed
    /\ uiPc = "msg"
    /\ uiPc' = "ranging"
    /\ seen' = CurrentDeployments
    /\ UNCHANGED <<choices, cursor, selected, state, marked>>
    /\ UNCHANGED <<ctlVars, crashed, infVars, Indexer, queue, wrkVars,
                   CurrentDeployments, reported, addsSinceGet, cycle>>
    /\ UNCHANGED rlVars

\* The rest of Update(deploymentMsg) once newChoices is there: the cursor
\* goes back to 0 only if the list has grown.
SetChoices(newChoices) ==
    /\ state' = "ready"
    /\ cursor' = IF Len(choices) < Len(newChoices) THEN 0 ELSE cursor
    /\ choices' = newChoices
    /\ uiPc' = "tick"
    /\ crashed' = crashed

\* Update(deploymentMsg), the range is over.  If a worker wrote the map
\* meanwhile, the range raced with the write: the runtime may stop the
\* process (concurrent map iteration and map write, or an index past the
\* slice), or the range has seen the map as it was or as it is now.
UpdateDeployments ==
    /\ ~crashed
    /\ uiPc = "ranging"
    /\ IF seen = CurrentDeployments
       THEN SetChoices(convertToSliceAndSort(seen))
       ELSE \/ SetChoices(convertToSliceAndSort(seen))
            \/ SetChoices(convertToSliceAndSort(CurrentDeployments))
            \/ /\ crashed' = TRUE
               /\ UNCHANGED <<uiPc, choices, cursor, state>>
    /\ UNCHANGED <<seen, selected, marked>>
    /\ UNCHANGED <<ctlVars, infVars, Indexer, queue, wrkVars,
                   CurrentDeployments, reported, addsSinceGet, cycle>>
    /\ UNCHANGED rlVars

\* The event loop is between two messages.
AwaitingMsg == uiPc \in {"tick", "msg"}

\* Update(KeyMsg "up" / "k").
KeyUp ==
    /\ ~crashed
    /\ AwaitingMsg
    /\ cursor > 0
    /\ cursor' = cursor - 1
    /\ UNCHANGED <<uiPc, seen, choices, selected, state, marked>>
    /\ UNCHANGED <<ctlVars, crashed, infVars, Indexer, queue, wrkVars,
                   CurrentDeployments, reported, addsSinceGet, cycle>>
    /\ UNCHANGED rlVars

\* Update(KeyMsg "down" / "j").
KeyDown ==
    /\ ~crashed
    /\ AwaitingMsg
    /\ cursor < Len(choices) - 1
    /\ cursor' = cursor + 1
    /\ UNCHANGED <<uiPc, seen, choices, selected, state, marked>>
    /\ UNCHANGED <<ctlVars, crashed, infVars, Indexer, queue, wrkVars,
                   CurrentDeployments, reported, addsSinceGet, cycle>>
    /\ UNCHANGED rlVars

\* The key of the row the cursor is on, if it is on one.
RowAt(i) == IF i < Len(choices) THEN {choices[i + 1]} ELSE {}

\* Update(KeyMsg "enter" / " "): toggles the cursor's index in selected.
KeyEnter ==
    /\ ~crashed
    /\ AwaitingMsg
    /\ IF cursor \in selected
       THEN /\ selected' = selected \ {cursor}
            /\ marked' = marked \ RowAt(cursor)
       ELSE /\ selected' = selected \cup {cursor}
            /\ marked' = marked \cup RowAt(cursor)
    /\ UNCHANGED <<uiPc, seen, choices, cursor, state>>
    /\ UNCHANGED <<ctlVars, crashed, infVars, Indexer, queue, wrkVars,
                   CurrentDeployments, reported, addsSinceGet, cycle>>
    /\ UNCHANGED rlVars

\* Update(KeyMsg "q" / "ctrl+c"): tea.Quit ends the event loop.
KeyQuit ==
    /\ ~crashed
    /\ AwaitingMsg
    /\ uiPc' = "quit"
    /\ UNCHANGED <<seen, choices, cursor, selected, state, marked>>
    /\ UNCHANGED <<ctlVars, crashed, infVars, Indexer, queue, wrkVars,
                   CurrentDeployments, reported, addsSinceGet, cycle>>
    /\ UNCHANGED rlVars

\* model.View: nothing but a banner while initializing; else one row per
\* choice, with the cursor mark and the selection mark of its index.
View ==
    IF state = "initializing" THEN <<>>
    ELSE [i \in 1..Len(choices) |->
             [cursor |-> (cursor = i - 1),
              checked |-> (i - 1) \in selected,
              choice |-> choices[i]]]

\* -------------------------------------------------- retries and delays
\* handleErr's calls on the rate limiter for one key, looked at alone: the
\* key fails again (AddRateLimited, or Forget past the ceiling) or succeeds
\* (Forget), and time passes (the bucket refills).

\* handleErr, err # nil, for key k.
RetryFailed(k) ==
    /\ k \in Faulty
    /\ IF ShouldRetry(queue, k)
       THEN /\ tokens > -MaxDebt
            /\ queue' = QAddRateLimited(queue, k)
            /\ tokens' = tokens - 1
            /\ delays' = [delays EXCEPT ![k] =
                   Append(@, [delay |-> RateLimiterWhen(QNumRequeues(queue, k),
                                                        tokens),
                              free |-> (tokens >= 1)])]
       ELSE /\ queue' = QForget(queue, k)
            /\ delays' = [delays EXCEPT ![k] = <<>>]
            /\ UNCHANGED tokens
    /\ UNCHANGED <<ctlVars, crashed, infVars, Indexer, wrkVars,
                   CurrentDeployments, reported, addsSinceGet, cycle, uiVars>>

\* handleErr, err == nil, for key k.
RetrySucceeded(k) ==
    /\ k \in Faulty
    /\ QNumRequeues(queue, k) > 0
    /\ queue' = handleErrNil(queue, k)
    /\ delays' = [delays EXCEPT ![k] = <<>>]
    /\ UNCHANGED <<ctlVars, crashed, infVars, Indexer, wrkVars,
                   CurrentDeployments, reported, addsSinceGet, cycle, uiVars,
                   tokens>>

\* A tenth of a second passes: the bucket gains a token, up to its burst.
Refill ==
    /\ tokens < Burst
    /\ tokens' = tokens + 1
    /\ UNCHANGED <<ctlVars, crashed, infVars, Indexer, queue, wrkVars,
                   CurrentDeployments, reported, addsSinceGet, cycle, uiVars,
                   delays>>

\* ----------------------------------------------------------- the program

\* The state NewController leaves, Run not yet called.
Start ==
    /\ stopCh = FALSE
    /\ runPc = "init"
    /\ polls = 0
    /\ crashed = FALSE
    /\ infPc = "off"
    /\ toList = listed
    /\ hasSynced = FALSE
    /\ ev = NoEv
    /\ Indexer = [k \in Keys |-> None]
    /\ queue = NewQueue
    /\ pc = [w \in Workers |-> "off"]
    /\ wkey = [w \in Workers |-> None]
    /\ werr = [w \in Workers |-> None]
    /\ deferred = [w \in Workers |-> FALSE]
    /\ CurrentDeployments = [k \in Keys |-> None]
    /\ reported = {}
    /\ lastEvent = [k \in Keys |-> None]
    /\ addsSinceGet = [k \in Keys |-> NoAdds]
    /\ cycle = [k \in Keys |-> 0]
    /\ dones = [w \in Workers |-> 0]
    /\ act = [w \in Workers |-> NoAct]
    /\ InitialModel
    /\ tokens = Burst
    /\ delays = [k \in Keys |-> <<>>]

\* Any initial listing, two worker loops, few events and faults.
Init ==
    /\ listed \in SUBSET Keys
    /\ pool = Workers
    /\ evLeft = MaxEvents
    /\ faultLeft = MaxFaults
    /\ Start

\* The program as written (one worker loop), one listed deployment, and
\* faults enough for a whole retry cycle and the attempt after it.
InitRetry ==
    /\ listed = {"ns/a"}
    /\ pool = {"w1"}
    /\ evLeft = MaxEvents
    /\ faultLeft = MaxRetries + 2
    /\ Start

Next ==
    \/ RunStart
    \/ RunPollSync
    \/ RunSynced
    \/ RunSyncFailed
    \/ RunStopped
    \/ CloseStop
    \/ \E k \in Keys : ListItem(k)
    \/ ListDone
    \/ \E k \in Keys : WatchEvent(k)
    \/ InformerStop
    \/ Notify
    \/ \E k \in Keys : WaitingFor(k)
    \/ \E w \in Workers : WorkerStart(w)
    \/ \E w \in Workers : processNextItemGet(w)
    \/ \E w \in Workers : processNextItemQuit(w)
    \/ \E w \in Workers : syncDeployment(w)
    \/ \E w \in Workers : handleErr(w)
    \/ \E w \in Workers : processNextItemReturn(w)

Spec == Init /\ [][Next]_vars

SpecRetry == InitRetry /\ [][Next]_vars

\* The program with its terminal: one worker loop, both deployments listed.
InitUI ==
    /\ listed = Keys
    /\ pool = {"w1"}
    /\ evLeft = MaxEvents
    /\ faultLeft = MaxFaults
    /\ Start

NextUI ==
    \/ Next
    \/ ModelInit
    \/ checkDeployments
    \/ UpdateDeploymentsRange
    \/ UpdateDeployments
    \/ KeyUp
    \/ KeyDown
    \/ KeyEnter
    \/ KeyQuit

SpecUI == InitUI /\ [][NextUI]_vars

NextBackoff ==
    \/ \E k \in Keys : RetryFailed(k)
    \/ \E k \in Keys : RetrySucceeded(k)
    \/ Refill

SpecBackoff == InitRetry /\ [][NextBackoff]_vars

\* One step of worker loop w.
WorkerStep(w) ==
    \/ WorkerStart(w)
    \/ processNextItemGet(w)
    \/ processNextItemQuit(w)
    \/ syncDeployment(w)
    \/ handleErr(w)
    \/ processNextItemReturn(w)

\* Scheduling: every goroutine of the program that can take a step
\* eventually takes one (Run, the informer and its handlers, the delaying
\* queue's timer, each worker loop).  The environment owes nothing: the stop
\* channel need not be closed and no watch event need arrive.
Fairness ==
    /\ WF_vars(RunStart \/ RunSynced \/ RunSyncFailed \/ RunStopped)
    /\ WF_vars(ListDone \/ InformerStop \/ Notify)
    /\ WF_vars(\E k \in Keys : ListItem(k))
    /\ WF_vars(\E k \in Keys : WaitingFor(k))
    /\ \A w \in Workers : WF_vars(WorkerStep(w))

\* Two worker loops, one listed deployment.
InitFair ==
    /\ listed = {"ns/a"}
    /\ pool = Workers
    /\ evLeft = MaxEvents
    /\ faultLeft = MaxFaults
    /\ Start

SpecFair == InitFair /\ [][Next]_vars /\ Fairness

SpecRetryFair == InitRetry /\ [][Next]_vars /\ Fairness

\* ------------------------------------------------------------ properties

Holding(w) == pc[w] \in {"sync", "handleErr", "return"}

\* What the Local Cache holds after an event of this kind.
Payload(e) == IF e \in Versions THEN e ELSE None

\* C1: at most one worker is between Get(K) and Done(K) for any key K, so
\* syncDeployment never runs for one key in two workers at once.
C1_OneWorkerPerKey ==
    \A k \in Keys : Cardinality({w \in Workers : Holds(w, k)}) <= 1

\* A worker holds K, K was enqueued again meanwhile, and the other worker is
\* idle: it is the queue that keeps K from it.
C1_Witness ==
    \E k \in Keys : \E w, v \in Workers :
        /\ w # v
        /\ Holds(w, k) /\ pc[w] = "sync"
        /\ pc[v] = "idle"
        /\ addsSinceGet[k].live > 0

\* C2 as claimed: while K is in flight the queue has no entry for K, and
\* the Done(K) that ends the flight leaves K queued exactly once if Add(K)
\* was called in between, whatever the number of calls, and not at all
\* otherwise.
C2_Original ==
    /\ [](\A k \in Keys : InFlight(k) => Count(queue.items, k) = 0)
    /\ [][\A w \in Workers :
            (pc[w] = "return" /\ pc'[w] = "idle") =>
                Count(queue'.items, wkey[w]) =
                    IF addsSinceGet[wkey[w]].calls > 0 THEN 1 ELSE 0]_vars

\* C2, amended: the same, for the Add(K) calls made before the queue was
\* shut down (Add is a no-op after ShutDown).
C2_AddInFlightRedeliveredOnce ==
    /\ [](\A k \in Keys : InFlight(k) => Count(queue.items, k) = 0)
    /\ [][\A w \in Workers :
            (pc[w] = "return" /\ pc'[w] = "idle") =>
                Count(queue'.items, wkey[w]) =
                    IF addsSinceGet[wkey[w]].live > 0 THEN 1 ELSE 0]_vars

\* K is about to be Done after two Adds made while it was in flight.
C2_Witness ==
    \E w \in Workers :
        /\ pc[w] = "return" /\ wkey[w] # None
        /\ addsSinceGet[wkey[w]].live = 2
        /\ Count(queue.items, wkey[w]) = 0

\* C5 as claimed: no worker holds a key while HasSynced is false, and when
\* the worker loops are launched every key of the initial listing has a
\* Local Cache entry.
C5_Original ==
    /\ \A w \in Workers : Holding(w) => hasSynced
    /\ (runPc = "running" /\ \A w \in pool : pc[w] = "start") =>
           \A k \in listed : Indexer[k] # None

\* C5, amended: no worker holds a key while HasSynced is false, and once
\* HasSynced is true every key of the initial listing has a Local Cache
\* entry unless the watcher has since processed a delete event for it.
C5_SyncBarrier ==
    /\ \A w \in Workers : Holding(w) => hasSynced
    /\ hasSynced =>
           \A k \in listed : Indexer[k] # None \/ lastEvent[k] = "deleted"

\* The worker loops are being launched with the listed keys enqueued during
\* the listing, one of them deleted from the cache since.
C5_Witness ==
    /\ runPc = "running" /\ \A w \in pool : pc[w] = "start"
    /\ listed = Keys
    /\ Len(queue.items) = 2
    /\ \E k \in listed : Indexer[k] = None

\* C6: the Local Cache entry of every key is the payload of the last event
\* the watcher processed for it, absent after a delete, whatever the queue
\* holds and the workers do.
C6_CacheIsLastEvent ==
    \A k \in Keys : Indexer[k] = Payload(lastEvent[k])

\* A listed key was reconciled, then updated, and its update is still
\* waiting in the queue while the cache already holds it.
C6_Witness ==
    \E k \in Keys :
        /\ lastEvent[k] = "v2" /\ Indexer[k] = "v2"
        /\ CurrentDeployments[k] = "v1"
        /\ Count(queue.items, k) = 1

\* C7 as claimed: the queue holds a key that is not in flight exactly once
\* if Add was called for it since its last delivery, however often, and not
\* at all otherwise; and the Local Cache holds every key's latest payload.
C7_Original ==
    \A k \in Keys :
        /\ Count(queue.items, k) <= 1
        /\ ~InFlight(k) =>
               Count(queue.items, k) =
                   IF addsSinceGet[k].calls > 0 THEN 1 ELSE 0
        /\ Indexer[k] = Payload(lastEvent[k])

\* C7, amended: the same, for the Add calls made before the queue was shut
\* down.
C7_BurstQueuedOnce ==
    \A k \in Keys :
        /\ Count(queue.items, k) <= 1
        /\ ~InFlight(k) =>
               Count(queue.items, k) =
                   IF addsSinceGet[k].live > 0 THEN 1 ELSE 0
        /\ Indexer[k] = Payload(lastEvent[k])

\* The scenario add(ns/a, v1), add(ns/b, v1), update(ns/a, v2) before any
\* Get: the cache is {ns/a: v2, ns/b: v1} and each key is queued once.
C7_Witness ==
    /\ \A w \in Workers : dones[w] = 0 /\ ~Holding(w)
    /\ addsSinceGet["ns/a"].live = 2 /\ addsSinceGet["ns/b"].live = 1
    /\ Indexer["ns/a"] = "v2" /\ Indexer["ns/b"] = "v1"
    /\ Count(queue.items, "ns/a") = 1 /\ Count(queue.items, "ns/b") = 1

\* C3: counting a key's consecutive failed reconciliations from its last
\* success or drop, handleErr answers failures 1 to 5 with AddRateLimited,
\* and the 6th with Forget and a report to the error sink, not a requeue.
C3_FiveRequeuesThenDrop ==
    \A w \in Workers :
        (pc[w] = "return" /\ werr[w] = "err") =>
            /\ act[w].attempt \in 1..(MaxRetries + 1)
            /\ act[w].attempt <= MaxRetries => act[w].what = "requeue"
            /\ act[w].attempt = MaxRetries + 1 =>
                   /\ act[w].what = "drop"
                   /\ wkey[w] \in reported
                   /\ QNumRequeues(queue, wkey[w]) = 0

\* handleErr has just dropped a key on its 6th consecutive failure.
C3_Witness ==
    \E w \in Workers :
        /\ pc[w] = "return" /\ werr[w] = "err"
        /\ act[w] = [what |-> "drop", attempt |-> MaxRetries + 1]
        /\ ~queue.shuttingDown

\* C4: after handleErr has handled a success NumRequeues of the key is 0,
\* and after it has requeued a failure NumRequeues is the number of
\* failures since the last success: the failure after a success counts 1.
C4_SuccessResetsRetries ==
    \A w \in Workers :
        pc[w] = "return" =>
            /\ act[w].what = "forget" =>
                   QNumRequeues(queue, wkey[w]) = 0 /\ cycle[wkey[w]] = 0
            /\ act[w].what = "requeue" =>
                   QNumRequeues(queue, wkey[w]) = act[w].attempt

\* Five failures, a success, and a failure that is requeued as attempt 1.
C4_Witness ==
    \E w \in Workers :
        /\ pc[w] = "return"
        /\ act[w] = [what |-> "requeue", attempt |-> 1]
        /\ faultLeft = 1
        /\ reported = {}

\* C8: every Get that returned a key is answered by one Done of that key
\* when processNextItem returns, on every path: no Done before the return,
\* none twice, and no key left in flight without a worker holding it.
C8_DoneOncePerGet ==
    /\ \A w \in Workers :
           /\ dones[w] <= 1
           /\ Holding(w) => dones[w] = 0 /\ deferred[w]
           /\ ~Holding(w) => ~deferred[w]
    /\ queue.processing = {k \in Keys : InFlight(k)}

\* The reconciler has panicked after an earlier retry cycle ended in a
\* drop; the deferred Done has run and nothing is left in flight.
C8_Witness ==
    /\ crashed
    /\ "ns/a" \in reported
    /\ dones["w1"] = 1
    /\ queue.processing = {}

\* C9 as claimed: after handleErr has handled an error, the key is
\* scheduled for a requeue (or already marked for one) or the error is
\* reported.
C9_ErrorRequeuedOrReported ==
    \A w \in Workers :
        (pc[w] = "return" /\ werr[w] = "err") =>
            \/ wkey[w] \in queue.waiting
            \/ wkey[w] \in queue.dirty
            \/ wkey[w] \in reported

\* C10 as claimed: once the readiness signal has stayed false for the
\* deadline, Run is no longer waiting for it.
C10_AbortsAtDeadline ==
    (polls >= SyncDeadline /\ ~hasSynced) => runPc # "waitSync"

\* Run has returned, the informer has stopped and no worker loop is left.
Stopped ==
    /\ runPc = "done" /\ queue.shuttingDown
    /\ infPc = "stopped"
    /\ \A w \in Workers : pc[w] \in {"off", "exited"}

Reconciled(k) ==
    \E w \in Workers : wkey[w] = k /\ pc[w] \in {"handleErr", "return"}

\* C12: processNextItem returns true after an error, requeued or dropped:
\* the worker goes back to Get; and every key that is in the queue is
\* eventually delivered and reconciled, whatever fails meanwhile, unless the
\* stop channel is closed or a panic ends the process.
C12_FailureDoesNotStopPool ==
    /\ [][\A w \in Workers :
            (pc[w] = "return" /\ werr[w] = "err" /\ pc'[w] # "return") =>
                pc'[w] = "idle"]_vars
    /\ \A y \in Keys :
           (Count(queue.items, y) > 0) ~> (Reconciled(y) \/ stopCh \/ crashed)

\* ns/a has just been dropped after its retry ceiling while ns/b waits in
\* the queue.
C12_Witness ==
    /\ ~stopCh /\ ~crashed
    /\ \E w \in Workers :
           /\ pc[w] = "return" /\ wkey[w] = "ns/a" /\ werr[w] = "err"
           /\ act[w].what = "drop"
    /\ Count(queue.items, "ns/b") = 1

\* C13 as claimed: no task writes a shared structure while another task is
\* reading it outside a synchronized operation; for CurrentDeployments, no
\* worker writes the map while Update is ranging over it.
C13_NoUnsynchronizedAccess ==
    uiPc = "ranging" => seen = CurrentDeployments

\* C19 as claimed: the cursor is on an existing row, or 0 with no rows.
C19_CursorInRange ==
    /\ cursor >= 0
    /\ choices # <<>> => cursor < Len(choices)
    /\ choices = <<>> => cursor = 0

\* C20 as claimed: View marks a row as selected exactly if the user toggled
\* that row's deployment on and not off since, and every selected index is
\* the index of a row.
C20_SelectionFollowsKey ==
    /\ \A i \in 1..Len(View) : View[i].checked <=> View[i].choice \in marked
    /\ \A i \in selected : i < Len(choices)

\* C14: when syncDeployment finds no Local Cache entry for the worker's key
\* (GetByKey itself not failing), it takes the deletion path and returns
\* nil, leaving the key absent from the Local Cache and from
\* CurrentDeployments; handleErr then Forgets the key, schedules no requeue
\* and reports nothing.
C14_AbsentKeyIsDeleted ==
    [][\A w \in Workers :
        /\ (pc[w] = "sync" /\ pc'[w] # "sync" /\ Indexer[wkey[w]] = None
                /\ faultLeft' = faultLeft) =>
               /\ werr'[w] = "nil" /\ pc'[w] = "handleErr"
               /\ Indexer'[wkey[w]] = None
               /\ CurrentDeployments'[wkey[w]] = None
        /\ (pc[w] = "handleErr" /\ pc'[w] # "handleErr" /\ werr[w] = "nil"
                /\ CurrentDeployments[wkey[w]] = None) =>
               /\ act'[w].what = "forget"
               /\ QNumRequeues(queue', wkey[w]) = 0
               /\ queue'.waiting = queue.waiting
               /\ queue'.items = queue.items /\ queue'.dirty = queue.dirty
               /\ reported' = reported]_vars

\* The deletion path has just run for a key that was never added: its only
\* event was a delete.
C14_Witness ==
    \E w \in Workers :
        /\ pc[w] = "handleErr" /\ werr[w] = "nil"
        /\ wkey[w] \notin listed /\ lastEvent[wkey[w]] = "deleted"
        /\ evLeft = MaxEvents - 1
        /\ Indexer[wkey[w]] = None /\ CurrentDeployments[wkey[w]] = None

\* C15: a handler is called, and so a key enqueued, only once the Local
\* Cache holds that event; and what a worker reconciles a key against is
\* the cache at the time of its lookup, that is the last event the watcher
\* has seen for the key, never an older one.
C15_CacheBeforeEnqueue ==
    /\ [](ev # NoEv => Indexer[ev.key] = Payload(lastEvent[ev.key]))
    /\ [][\A k \in Keys :
            (k \in queue'.dirty /\ k \notin queue.dirty) =>
                /\ Indexer[k] = Payload(lastEvent[k])
                /\ Indexer'[k] = Indexer[k]]_vars
    /\ [][\A w \in Workers :
            (pc[w] = "sync" /\ pc'[w] = "handleErr"
                 /\ faultLeft' = faultLeft) =>
                CurrentDeployments'[wkey[w]] = Payload(lastEvent[wkey[w]])]_vars

\* A worker delivered a key for its add has reconciled it against v2: the
\* update reached the cache after the delivery, and its handler has not
\* even enqueued the key yet.
C15_Witness ==
    \E w \in Workers :
        /\ pc[w] = "handleErr" /\ werr[w] = "nil"
        /\ CurrentDeployments[wkey[w]] = "v2"
        /\ ev = [type |-> "update", key |-> wkey[w]]
        /\ addsSinceGet[wkey[w]].calls = 0

\* C16 as claimed: the i-th requeue of a key since its last Forget is
\* delayed by min(base * 2^(i-1), max), each AddRateLimited counts one, and
\* the delays of a cycle are non-decreasing.
C16_Original ==
    \A k \in Keys :
        /\ Len(delays[k]) = QNumRequeues(queue, k)
        /\ \A i \in 1..Len(delays[k]) :
               delays[k][i].delay = Min(BaseDelay * Pow2(i - 1), MaxDelay)
        /\ \A i \in 2..Len(delays[k]) :
               delays[k][i - 1].delay <= delays[k][i].delay

\* C16, amended: each AddRateLimited counts one, at most 5 per cycle; the
\* i-th requeue is delayed by at least min(base * 2^(i-1), max), and by
\* exactly that when the queue-wide bucket had a token, and then the delays
\* are non-decreasing; with the bucket empty the delay can be the bucket's.
C16_BackoffDelays ==
    \A k \in Keys :
        /\ Len(delays[k]) = QNumRequeues(queue, k)
        /\ Len(delays[k]) <= MaxRetries
        /\ \A i \in 1..Len(delays[k]) :
               /\ delays[k][i].delay >= Min(BaseDelay * Pow2(i - 1), MaxDelay)
               /\ delays[k][i].free =>
                      delays[k][i].delay =
                          Min(BaseDelay * Pow2(i - 1), MaxDelay)
        /\ \A i \in 2..Len(delays[k]) :
               (delays[k][i - 1].free /\ delays[k][i].free) =>
                   delays[k][i - 1].delay <= delays[k][i].delay

\* A whole cycle of five requeues with tokens in the bucket: 5, 10, 20, 40
\* and 80 ms.
C16_Witness ==
    /\ Len(delays["ns/a"]) = MaxRetries
    /\ \A i \in 1..MaxRetries : delays["ns/a"][i].free
    /\ delays["ns/a"][1].delay = 5 /\ delays["ns/a"][5].delay = 80

\* C17: a step of a worker loop (Get, syncDeployment with deleteDeplotment,
\* handleErr, the return with its Done) leaves the Local Cache as it is;
\* the Indexer changes only in a step in which the watcher takes an event.
C17_WorkersLeaveCache ==
    [][/\ (\E w \in Workers : pc'[w] # pc[w]) => Indexer' = Indexer
       /\ Indexer' # Indexer =>
              /\ infPc \in {"listing", "watching"}
              /\ ev = NoEv /\ ev' # NoEv
              /\ Indexer'[ev'.key] = Payload(lastEvent'[ev'.key])
              /\ \A k \in Keys \ {ev'.key} : Indexer'[k] = Indexer[k]]_vars

\* A worker has reconciled an updated deployment and handled the result:
\* the cache still holds the update.
C17_Witness ==
    \E w \in Workers :
        /\ pc[w] = "return" /\ act[w].what = "forget"
        /\ Indexer[wkey[w]] = "v2" /\ CurrentDeployments[wkey[w]] = "v2"

\* The initial listing is in, nothing is queued, scheduled or in flight, no
\* handler is due, and CurrentDeployments holds exactly the keys of the
\* Local Cache, each with the cache's snapshot.
Consistent ==
    /\ hasSynced /\ ev = NoEv
    /\ queue.items = <<>> /\ queue.processing = {} /\ queue.waiting = {}
    /\ \A w \in Workers : ~Holding(w)
    /\ \A k \in Keys : CurrentDeployments[k] = Indexer[k]

\* C18: under fair scheduling, unless the stop channel is closed, a panic
\* ends the process or a key is dropped after its retry ceiling, the
\* program reaches and, watch events having stopped, keeps a state in which
\* the queue is empty, no key is in flight and CurrentDeployments equals
\* the Local Cache.
C18_EventuallyConsistent ==
    <>[](stopCh \/ crashed \/ reported # {} \/ Consistent)

\* After the last watch event, with a failed attempt retried on the way:
\* the listed deployment was deleted and the view no longer holds it.
C18_Witness ==
    /\ Consistent /\ ~stopCh /\ ~crashed /\ evLeft = 0 /\ reported = {}
    /\ faultLeft < MaxRetries + 2
    /\ \E k \in listed : lastEvent[k] = "deleted" /\ CurrentDeployments[k] = None

====
